---- MODULE Spec2Model ----
(***************************************************************************)
(* Model of djblets.webapi.models.BaseWebAPIToken                          *)
(* (src/djblets/webapi/models.py): policy validation, the save() signal    *)
(* and token expiration.                                                   *)
(*                                                                         *)
(* Python values are records [t, items]: t is the Python type, items the   *)
(* (key, value) pairs of a dict in insertion order (Python dicts iterate   *)
(* in insertion order).  Dict keys are records [kt, k]: kt the key's type. *)
(***************************************************************************)
EXTENDS Integers, Sequences, FiniteSets, TLC

VARIABLES
    policy,     \* the argument of validate_policy
    root,       \* the token class: its get_root_resource() and resource tree
    result,     \* the outcome of validate_policy(policy)
    pk,         \* pk[t]: the primary key of token t, or None
    call,       \* the save() call in progress: its token, is_new and position
    calls,      \* the save() calls so far, each with the events it caused
    now,        \* timezone.now()
    expires,    \* the token's expires field
    reports     \* the is_expired() calls so far

vars == <<policy, root, result, pk, call, calls, now, expires, reports>>

policyVars == <<policy, root, result>>
saveVars == <<pk, call, calls>>
expireVars == <<now, expires, reports>>

(***************************************************************************)
(* Bounds of the model.                                                    *)
(***************************************************************************)
MaxResources == 2
MaxNodes == 3
MaxTokens == 2
MaxSaves == 3
MaxTime == 3
MaxReports == 2

(***************************************************************************)
(* Python values.                                                          *)
(***************************************************************************)
StrKey(s) == [kt |-> "str", k |-> s]
IntKey(s) == [kt |-> "int", k |-> s]

Dict(kvs) == [t |-> "dict", items |-> kvs]
List == [t |-> "list", items |-> <<>>]
Str == [t |-> "str", items |-> <<>>]
Absent == [t |-> "absent", items |-> <<>>]

\* isinstance(v, dict), isinstance(v, list), isinstance(k, str)
IsDict(v) == v.t = "dict"
IsList(v) == v.t = "list"
IsStr(key) == key.kt = "str"

\* key in d
HasKey(d, key) == \E i \in 1..Len(d.items) : d.items[i][1] = key

\* d[key]
Get(d, key) == d.items[CHOOSE i \in 1..Len(d.items) : d.items[i][1] = key][2]

\* bool(d) of a dict
NonEmpty(d) == Len(d.items) > 0

(***************************************************************************)
(* Outcomes of a call: a normal return or a raised exception.              *)
(***************************************************************************)
NoMsg == [fmt |-> "", args |-> <<>>]

Return(n_root) == [outcome |-> "return", msg |-> NoMsg, rootCalls |-> n_root]

Raise(kind, fmt, args, n_root) ==
    [outcome |-> kind, msg |-> [fmt |-> fmt, args |-> args], rootCalls |-> n_root]

NotCalled == [outcome |-> "none", msg |-> NoMsg, rootCalls |-> 0]

MsgNotObject == "The policy must be a JSON object."
MsgMissingResources == "The policy is missing a \"resources\" section."
MsgResourcesNotObject == "The policy's \"resources\" section must be a JSON object."
MsgResourcesEmpty == "The policy's \"resources\" section must not be empty."
MsgInvalidPolicyId == "\"%s\" is not a valid resource policy ID."
MsgNameNotString == "%s must be a string in \"resources.%s\""
MsgSectionNotObject == "The \"%s\" section must be a JSON object."
MsgSectionNoRules == "The \"%s\" section must have \"allow\" and/or \"block\" rules."
MsgAllowNotList == "The \"%s\" section's \"allow\" rule must be a list."
MsgBlockNotList == "The \"%s\" section's \"block\" rule must be a list."

(***************************************************************************)
(* BaseWebAPIToken._validate_policy_section.  full_section_name is the     *)
(* sequence of the dotted name's parts.                                    *)
(***************************************************************************)
validate_policy_section(parent_section, section_name, full_section_name, n_root) ==
    LET section == Get(parent_section, section_name)
    IN  IF ~IsDict(section)
        THEN Raise("ValidationError", MsgSectionNotObject, full_section_name, n_root)
        ELSE IF ~HasKey(section, StrKey("allow")) /\ ~HasKey(section, StrKey("block"))
        THEN Raise("ValidationError", MsgSectionNoRules, full_section_name, n_root)
        ELSE IF HasKey(section, StrKey("allow")) /\ ~IsList(Get(section, StrKey("allow")))
        THEN Raise("ValidationError", MsgAllowNotList, full_section_name, n_root)
        ELSE IF HasKey(section, StrKey("block")) /\ ~IsList(Get(section, StrKey("block")))
        THEN Raise("ValidationError", MsgBlockNotList, full_section_name, n_root)
        ELSE Return(n_root)

(***************************************************************************)
(* The resource tree handed out by get_root_resource().  Node 1 is the    *)
(* root resource.                                                          *)
(***************************************************************************)
Nodes == 1..MaxNodes
RootNode == 1

RECURSIVE get_valid_policy_ids(_, _, _)
RECURSIVE VisitChildren(_, _, _, _)

\* the body of "for child_resource in children: _get_valid_policy_ids(child, result)"
VisitChildren(tree, children, i, acc) ==
    IF i > Len(children)
    THEN acc
    ELSE VisitChildren(tree, children, i + 1,
                       get_valid_policy_ids(tree, children[i], acc))

\* A traversal that forgets the item children.
get_valid_policy_ids_list_only(tree, resource, acc) ==
    LET r1 == IF tree.has_policy_id[resource]
              THEN acc \cup {tree.policy_id[resource]}
              ELSE acc
    IN  VisitChildren(tree, tree.list_child_resources[resource], 1, r1)

\* BaseWebAPIToken._get_valid_policy_ids(resource, result)
get_valid_policy_ids(tree, resource, acc) ==
    LET r1 == IF tree.has_policy_id[resource]
              THEN acc \cup {tree.policy_id[resource]}
              ELSE acc
        r2 == VisitChildren(tree, tree.list_child_resources[resource], 1, r1)
    IN  VisitChildren(tree, tree.item_child_resources[resource], 1, r2)

(***************************************************************************)
(* BaseWebAPIToken.validate_policy.                                        *)
(***************************************************************************)
\* A filter that keeps the '*' entry.
resource_policies_unfiltered(resources_section) ==
    resources_section.items

\* resource_policies = [(name, section) for ... if section_name != '*']
resource_policies(resources_section) ==
    LET RECURSIVE Filter(_)
        Filter(s) ==
            IF s = <<>> THEN <<>>
            ELSE IF Head(s)[1] # StrKey("*")
                 THEN <<Head(s)>> \o Filter(Tail(s))
                 ELSE Filter(Tail(s))
    IN  Filter(resources_section.items)

RECURSIVE ValidateSubsections(_, _, _, _)
\* for subsection_name, subsection in section.items(): ...
ValidateSubsections(section, policy_id, i, n_root) ==
    IF i > Len(section.items)
    THEN Return(n_root)
    ELSE LET subsection_name == section.items[i][1]
         IN  IF ~IsStr(subsection_name)
             THEN Raise("ValidationError", MsgNameNotString,
                        <<subsection_name.k, policy_id.k>>, n_root)
             ELSE LET r == validate_policy_section(
                               section, subsection_name,
                               <<"resources", policy_id.k, subsection_name.k>>,
                               n_root)
                  IN  IF r.outcome # "return"
                      THEN r
                      ELSE ValidateSubsections(section, policy_id, i + 1, n_root)

RECURSIVE ValidateResourcePolicies(_, _, _, _)
\* for policy_id, section in resource_policies: ...
ValidateResourcePolicies(rp, valid_policy_ids, i, n_root) ==
    IF i > Len(rp)
    THEN Return(n_root)
    ELSE LET policy_id == rp[i][1]
             section == rp[i][2]
         IN  IF policy_id.k \notin valid_policy_ids
             THEN Raise("ValidationError", MsgInvalidPolicyId, <<policy_id.k>>, n_root)
             ELSE IF ~IsDict(section)
             THEN \* section.items() on a value that is no dict
                  Raise("AttributeError", "object has no attribute 'items'",
                        <<section.t>>, n_root)
             ELSE LET r == ValidateSubsections(section, policy_id, 1, n_root)
                  IN  IF r.outcome # "return"
                      THEN r
                      ELSE ValidateResourcePolicies(rp, valid_policy_ids, i + 1, n_root)

\* The part of validate_policy after the '*' section was validated.
ValidateResources(resources_section, cls) ==
    LET rp == resource_policies(resources_section)
    IN  IF rp = <<>>
        THEN Return(0)
        ELSE IF ~cls.implemented
        THEN \* BaseWebAPIToken.get_root_resource
             Raise("NotImplementedError", "", <<>>, 1)
        ELSE ValidateResourcePolicies(
                 rp, get_valid_policy_ids(cls, RootNode, {}), 1, 1)

validate_policy(p, cls) ==
    IF ~IsDict(p)
    THEN Raise("ValidationError", MsgNotObject, <<>>, 0)
    ELSE IF ~NonEmpty(p)
    THEN Return(0)
    ELSE IF ~HasKey(p, StrKey("resources"))
    THEN Raise("ValidationError", MsgMissingResources, <<>>, 0)
    ELSE LET resources_section == Get(p, StrKey("resources"))
         IN  IF ~IsDict(resources_section)
             THEN Raise("ValidationError", MsgResourcesNotObject, <<>>, 0)
             ELSE IF ~NonEmpty(resources_section)
             THEN Raise("ValidationError", MsgResourcesEmpty, <<>>, 0)
             ELSE LET star == IF HasKey(resources_section, StrKey("*"))
                              THEN validate_policy_section(
                                       resources_section, StrKey("*"),
                                       <<"resources", "*">>, 0)
                              ELSE Return(0)
                  IN  IF star.outcome # "return"
                      THEN star
                      ELSE ValidateResources(resources_section, cls)

(***************************************************************************)
(* Inputs of validate_policy: policies and resource trees.                 *)
(***************************************************************************)
RuleVals == {List, Str}

\* A dict with an optional "allow" and an optional "block" entry.
SectionDict(a, b) ==
    Dict((IF a = Absent THEN <<>> ELSE << <<StrKey("allow"), a>> >>)
         \o (IF b = Absent THEN <<>> ELSE << <<StrKey("block"), b>> >>))

SectionVals ==
    {List} \cup {SectionDict(a, b) : a \in RuleVals \cup {Absent},
                                      b \in RuleVals \cup {Absent}}

GoodSection == SectionDict(List, Absent)

EntryVals ==
    {List, Dict(<<>>)}
    \cup {Dict(<< <<StrKey("GET"), s>> >>) : s \in SectionVals}
    \cup {Dict(<< <<IntKey("1"), GoodSection>> >>),
          Dict(<< <<StrKey("allow"), List>> >>)}
    \cup {Dict(<< <<StrKey("GET"), GoodSection>>, <<StrKey("POST"), s>> >>) :
              s \in {GoodSection, Dict(<<>>)}}

PolicyIds == {"a", "b"}

ResourceKeys == {StrKey("*")} \cup {StrKey(id) : id \in PolicyIds}

ValsFor(key) == IF key = StrKey("*") THEN SectionVals ELSE EntryVals

KeysOf(kvs) == {kvs[i][1] : i \in 1..Len(kvs)}

\* Every dict of at most n entries over ResourceKeys, in every insertion order.
RECURSIVE ResourceSections(_)
ResourceSections(n) ==
    IF n = 0
    THEN {<<>>}
    ELSE LET shorter == ResourceSections(n - 1)
         IN  shorter \cup
             UNION {UNION {{Append(s, <<key, v>>) : v \in ValsFor(key)} :
                           key \in ResourceKeys \ KeysOf(s)} :
                    s \in shorter}

WithResources(v) == Dict(<< <<StrKey("resources"), v>> >>)

Policies ==
    {List, Str, Dict(<<>>), Dict(<< <<StrKey("note"), Str>> >>), WithResources(List)}
    \cup {WithResources(Dict(s)) : s \in ResourceSections(MaxResources)}

\* Policies whose entries are all well-formed: they differ in their IDs only.
CorePolicies ==
    {p \in Policies :
        /\ IsDict(p) /\ HasKey(p, StrKey("resources"))
        /\ IsDict(Get(p, StrKey("resources")))
        /\ \A i \in 1..Len(Get(p, StrKey("resources")).items) :
              LET kv == Get(p, StrKey("resources")).items[i]
              IN  kv[2] = IF kv[1] = StrKey("*") THEN GoodSection ELSE Dict(<<>>)}

\* The increasing sequence of the elements of a set of nodes.
SortedSeq(S) ==
    CHOOSE s \in [1..Cardinality(S) -> S] :
        \A i, j \in 1..Cardinality(S) : i < j => s[i] < s[j]

Kinds == {"list", "item", "none"}

\* Node n > 1 hangs below parent[n] as a list child or an item child, or
\* (kind "none") is a resource that is in no tree.
Shapes ==
    {sh \in [parent : [Nodes -> Nodes], kind : [Nodes -> Kinds]] :
        /\ sh.parent[RootNode] = RootNode /\ sh.kind[RootNode] = "none"
        /\ \A n \in Nodes \ {RootNode} :
              /\ sh.parent[n] < n
              /\ sh.kind[n] = "none" => sh.parent[n] = RootNode}

\* Which resources have a policy_id attribute, and its value.
Labels ==
    {lb \in [has : [Nodes -> BOOLEAN], id : [Nodes -> PolicyIds]] :
        \A n \in Nodes : ~lb.has[n] => lb.id[n] = "a"}

TreeOf(sh, lb) ==
    [implemented |-> TRUE,
     has_policy_id |-> lb.has,
     policy_id |-> lb.id,
     list_child_resources |->
         [n \in Nodes |-> SortedSeq({c \in Nodes \ {RootNode} :
                                        sh.parent[c] = n /\ sh.kind[c] = "list"})],
     item_child_resources |->
         [n \in Nodes |-> SortedSeq({c \in Nodes \ {RootNode} :
                                        sh.parent[c] = n /\ sh.kind[c] = "item"})]]

Trees == {TreeOf(sh, lb) : sh \in Shapes, lb \in Labels}

\* A token class that does not override get_root_resource.
NotImplementedCls ==
    [implemented |-> FALSE,
     has_policy_id |-> [n \in Nodes |-> FALSE],
     policy_id |-> [n \in Nodes |-> "a"],
     list_child_resources |-> [n \in Nodes |-> <<>>],
     item_child_resources |-> [n \in Nodes |-> <<>>]]

\* Trees of a root and one list child: they realise every set of valid IDs.
CoreTrees ==
    {TreeOf(sh, lb) :
        sh \in {s \in Shapes : /\ MaxNodes > 1 => s.kind[2] = "list"
                               /\ \A n \in Nodes : n > 2 => s.kind[n] = "none"},
        lb \in {l \in Labels : \A n \in Nodes : n > 2 => ~l.has[n]}}

Classes == Trees \cup {NotImplementedCls}

(***************************************************************************)
(* validate_policy applied to an input.                                    *)
(***************************************************************************)
PolicyStart ==
    /\ \/ policy \in Policies /\ root \in CoreTrees \cup {NotImplementedCls}
       \/ policy \in CorePolicies /\ root \in Classes
    /\ result = NotCalled

Validate ==
    /\ result.outcome = "none"
    /\ result' = validate_policy(policy, root)
    /\ UNCHANGED <<policy, root>>

(***************************************************************************)
(* BaseWebAPIToken.save.  One call runs at a time; its steps are the       *)
(* statements of save().                                                   *)
(***************************************************************************)
Tokens == 1..MaxTokens

None == 0

NoCall == [pc |-> "idle", token |-> 0, is_new |-> FALSE]

\* A save() that signals whatever is_new says.
SignalAlways(is_new) == TRUE

\* if not is_new: webapi_token_updated.send(...)
SendsSignal(is_new) == ~is_new

\* The last call's events with one more.
Logged(event) ==
    [calls EXCEPT ![Len(calls)].events = Append(@, event)]

\* is_new = self.pk is None
SaveBegin(t) ==
    /\ call.pc = "idle"
    /\ Len(calls) < MaxSaves
    /\ call' = [pc |-> "super_save", token |-> t, is_new |-> (pk[t] = None)]
    /\ calls' = Append(calls, [token |-> t, pk_before |-> pk[t], events |-> <<>>])
    /\ UNCHANGED pk

\* super().save(*args, **kwargs) completes: a new token gets its primary key.
SuperSave ==
    /\ call.pc = "super_save"
    /\ pk' = [pk EXCEPT ![call.token] = IF @ = None THEN call.token ELSE @]
    /\ calls' = Logged("saved")
    /\ call' = IF SendsSignal(call.is_new)
               THEN [call EXCEPT !.pc = "send"]
               ELSE NoCall

\* super().save(*args, **kwargs) raises: the exception leaves save().
SuperSaveRaises ==
    /\ call.pc = "super_save"
    /\ calls' = Logged("raised")
    /\ call' = NoCall
    /\ UNCHANGED pk

\* webapi_token_updated.send(instance=self, sender=type(self))
SendSignal ==
    /\ call.pc = "send"
    /\ calls' = Logged("webapi_token_updated")
    /\ call' = NoCall
    /\ UNCHANGED pk

(***************************************************************************)
(* BaseWebAPIToken.is_expired.                                             *)
(***************************************************************************)
NoExpiry == [set |-> FALSE, at |-> 0]
ExpiresAt(time) == [set |-> TRUE, at |-> time]

Times == 0..MaxTime

\* An expiry test that leaves out the boundary instant.
is_expired_strict(exp, time) == exp.set /\ time > exp.at

\* return self.expires is not None and timezone.now() >= self.expires
is_expired(exp, time) == exp.set /\ time >= exp.at

\* The clock advances.
Tick ==
    /\ now < MaxTime
    /\ now' = now + 1
    /\ UNCHANGED <<expires, reports>>

\* The expires field is assigned.
SetExpires(e) ==
    /\ expires # e
    /\ expires' = e
    /\ UNCHANGED <<now, reports>>

\* A call of is_expired().
CallIsExpired ==
    /\ Len(reports) < MaxReports
    /\ reports' = Append(reports, [now |-> now, expires |-> expires,
                                   expired |-> is_expired(expires, now)])
    /\ UNCHANGED <<now, expires>>

(***************************************************************************)
(* Specifications.                                                         *)
(***************************************************************************)
SaveStart ==
    /\ pk \in {[t \in Tokens |-> IF t \in S THEN t ELSE None] : S \in SUBSET Tokens}
    /\ call = NoCall
    /\ calls = <<>>

ExpireStart ==
    /\ now = 0
    /\ expires \in {NoExpiry} \cup {ExpiresAt(e) : e \in Times}
    /\ reports = <<>>

PolicyIdle ==
    /\ policy = Dict(<<>>)
    /\ root = NotImplementedCls
    /\ result = NotCalled

SaveIdle ==
    /\ pk = [t \in Tokens |-> None]
    /\ call = NoCall
    /\ calls = <<>>

ExpireIdle ==
    /\ now = 0
    /\ expires = NoExpiry
    /\ reports = <<>>

\* validate_policy on every input.
Init == PolicyStart /\ SaveIdle /\ ExpireIdle

Next == Validate /\ UNCHANGED <<saveVars, expireVars>>

Spec == Init /\ [][Next]_vars

\* save() calls on tokens that are new or were loaded from the database.
InitSave == PolicyIdle /\ SaveStart /\ ExpireIdle

NextSave ==
    /\ UNCHANGED <<policyVars, expireVars>>
    /\ \/ \E t \in Tokens : SaveBegin(t)
       \/ SuperSave
       \/ SuperSaveRaises
       \/ SendSignal

SpecSave == InitSave /\ [][NextSave]_vars

\* is_expired() calls as the clock advances and expires is edited.
InitExpire == PolicyIdle /\ SaveIdle /\ ExpireStart

NextExpire ==
    /\ UNCHANGED <<policyVars, saveVars>>
    /\ \/ Tick
       \/ \E e \in {NoExpiry} \cup {ExpiresAt(t) : t \in Times} : SetExpires(e)
       \/ CallIsExpired

SpecExpire == InitExpire /\ [][NextExpire]_vars

(***************************************************************************)
(* What the claims speak of, stated without the operators above.           *)
(***************************************************************************)
Validated == result.outcome # "none"

Star == StrKey("*")

RuleNames == {StrKey("allow"), StrKey("block")}

\* A valid section: a dict with an "allow" or a "block" rule, each a list.
ValidSection(v) ==
    /\ v.t = "dict"
    /\ \E i \in 1..Len(v.items) : v.items[i][1] \in RuleNames
    /\ \A i \in 1..Len(v.items) : v.items[i][1] \in RuleNames => v.items[i][2].t = "list"

\* A valid resource entry: a dict of valid sections under string names.
ValidEntry(v) ==
    /\ v.t = "dict"
    /\ \A i \in 1..Len(v.items) : v.items[i][1].kt = "str" /\ ValidSection(v.items[i][2])

Range(seq) == {seq[i] : i \in 1..Len(seq)}

ChildrenOf(tree, n) ==
    Range(tree.list_child_resources[n]) \cup Range(tree.item_child_resources[n])

\* The resources reachable from the nodes of S by child links.
RECURSIVE Closure(_, _)
Closure(tree, S) ==
    LET more == S \cup UNION {ChildrenOf(tree, n) : n \in S}
    IN  IF more = S THEN S ELSE Closure(tree, more)

ReachableIds(tree) ==
    {tree.policy_id[n] : n \in {m \in Closure(tree, {RootNode}) : tree.has_policy_id[m]}}

\* The policy has a "resources" dict; its entries are Entries(policy).
HasResources(p) ==
    /\ p.t = "dict"
    /\ \E i \in 1..Len(p.items) : p.items[i][1] = StrKey("resources") /\ p.items[i][2].t = "dict"

Entries(p) ==
    (CHOOSE kv \in Range(p.items) : kv[1] = StrKey("resources"))[2].items

\* The positions of the non-'*' entries with an ID that no reachable resource has.
InvalidAt(p, tree) ==
    {i \in 1..Len(Entries(p)) :
        Entries(p)[i][1] # Star /\ Entries(p)[i][1].k \notin ReachableIds(tree)}

FirstInvalid(p, tree) ==
    CHOOSE i \in InvalidAt(p, tree) : \A j \in InvalidAt(p, tree) : i <= j

Accepts(p, tree) ==
    /\ p.t = "dict"
    /\ \/ p.items = <<>>
       \/ /\ HasResources(p)
          /\ Entries(p) # <<>>
          /\ \A i \in 1..Len(Entries(p)) :
                LET kv == Entries(p)[i]
                IN  IF kv[1] = Star
                    THEN ValidSection(kv[2])
                    ELSE kv[1].k \in ReachableIds(tree) /\ ValidEntry(kv[2])

OnlyStar(p) ==
    /\ HasResources(p)
    /\ Entries(p) # <<>>
    /\ \A i \in 1..Len(Entries(p)) : Entries(p)[i][1] = Star

InvalidIdError(id) ==
    /\ result.outcome = "ValidationError"
    /\ result.msg = [fmt |-> MsgInvalidPolicyId, args |-> <<id>>]

(***************************************************************************)
(* C1: validate_policy, with get_root_resource implemented, returns or     *)
(* raises ValidationError on every input; no other exception leaves it.    *)
(***************************************************************************)
C1_OnlyValidationError ==
    (Validated /\ root.implemented)
        => result.outcome \in {"return", "ValidationError"}

(***************************************************************************)
(* C2: validate_policy returns exactly for the policies that are {} or     *)
(* have a non-empty "resources" dict of a valid '*' section and valid      *)
(* entries under valid IDs; every other policy raises ValidationError.     *)
(***************************************************************************)
C2_AcceptsExactly ==
    (Validated /\ root.implemented)
        => /\ (result.outcome = "return") <=> Accepts(policy, root)
           /\ ~Accepts(policy, root) => result.outcome = "ValidationError"

\* The half of C2 that the code keeps: it returns exactly for those policies.
C2_ReturnsExactly ==
    (Validated /\ root.implemented)
        => ((result.outcome = "return") <=> Accepts(policy, root))

(***************************************************************************)
(* C3: validate_policy({}) returns without calling get_root_resource, and  *)
(* a policy whose "resources" holds only '*' is validated without calling  *)
(* it, so it never raises NotImplementedError, whatever the token class.   *)
(***************************************************************************)
C3_NoRootLookup ==
    Validated
        => /\ policy = Dict(<<>>) => result = Return(0)
           /\ OnlyStar(policy)
                 => result.rootCalls = 0 /\ result.outcome # "NotImplementedError"

C3_Witness ==
    /\ Validated
    /\ ~root.implemented
    /\ OnlyStar(policy)
    /\ result.outcome = "return"

(***************************************************************************)
(* C4 as stated: _get_valid_policy_ids is the set of the policy_ids of     *)
(* the reachable resources, and a policy with a non-'*' key outside that   *)
(* set raises the "not a valid resource policy ID" ValidationError for     *)
(* such a key.  (The calls that end in C1's AttributeError are set aside.) *)
(***************************************************************************)
C4_AlwaysInvalidIdError ==
    (Validated /\ root.implemented /\ HasResources(policy)
        /\ result.outcome # "AttributeError")
        => /\ get_valid_policy_ids(root, RootNode, {}) = ReachableIds(root)
           /\ InvalidAt(policy, root) # {}
                 => \E i \in InvalidAt(policy, root) :
                        InvalidIdError(Entries(policy)[i][1].k)

(***************************************************************************)
(* C4 amended: _get_valid_policy_ids is the set of the policy_ids of the   *)
(* reachable resources; a policy with a non-'*' key outside that set is    *)
(* never accepted, and raises the "not a valid resource policy ID" error   *)
(* for the first such key when the '*' entry, if any, is a valid section   *)
(* and every non-'*' entry before that key is valid; a key inside the set  *)
(* never raises that error.                                                *)
(***************************************************************************)
C4_InvalidIdFirstFailure ==
    root.implemented
        => /\ get_valid_policy_ids(root, RootNode, {}) = ReachableIds(root)
           /\ (Validated /\ HasResources(policy))
                 => /\ InvalidAt(policy, root) # {} => result.outcome # "return"
                    /\ (/\ InvalidAt(policy, root) # {}
                        /\ \A j \in 1..Len(Entries(policy)) :
                              LET kv == Entries(policy)[j]
                              IN  /\ kv[1] = Star => ValidSection(kv[2])
                                  /\ (kv[1] # Star /\ j < FirstInvalid(policy, root))
                                        => ValidEntry(kv[2]))
                          => InvalidIdError(
                                 Entries(policy)[FirstInvalid(policy, root)][1].k)
                    /\ result.msg.fmt = MsgInvalidPolicyId
                          => /\ InvalidAt(policy, root) # {}
                             /\ InvalidIdError(
                                    Entries(policy)[FirstInvalid(policy, root)][1].k)

\* The rejected ID belongs to a resource outside the tree, and the entry
\* before it names a resource that only item links reach.
C4_Witness ==
    /\ Validated
    /\ root.implemented
    /\ HasResources(policy)
    /\ Len(Entries(policy)) = 2
    /\ InvalidAt(policy, root) = {2}
    /\ FirstInvalid(policy, root) = 2
    /\ InvalidIdError(Entries(policy)[2][1].k)
    /\ \E n \in Nodes : root.has_policy_id[n] /\ root.policy_id[n] = Entries(policy)[2][1].k
    /\ Entries(policy)[1][1] # Star
    /\ Entries(policy)[1][1].k \notin
           get_valid_policy_ids_list_only(root, RootNode, {})

(***************************************************************************)
(* C5: every save() of a token whose pk was set sends webapi_token_updated *)
(* exactly once, after the underlying save completed; a save() of a token  *)
(* without pk (its creation) and a save() that raises send none.           *)
(***************************************************************************)
Completed(i) == i < Len(calls) \/ call.pc = "idle"

C5_SignalOncePerUpdate ==
    \A i \in 1..Len(calls) :
        LET c == calls[i]
        IN  IF Completed(i)
            THEN \/ c.events = <<"raised">>
                 \/ c.pk_before = None /\ c.events = <<"saved">>
                 \/ c.pk_before # None /\ c.events = <<"saved", "webapi_token_updated">>
            ELSE \/ call.pc = "super_save" /\ c.events = <<>>
                 \/ call.pc = "send" /\ c.pk_before # None /\ c.events = <<"saved">>

\* A token is created, updated, and then a save of it fails.
C5_Witness ==
    /\ call.pc = "idle"
    /\ Len(calls) = 3
    /\ calls[1].token = calls[2].token /\ calls[2].token = calls[3].token
    /\ calls[1].pk_before = None /\ calls[1].events = <<"saved">>
    /\ calls[2].events = <<"saved", "webapi_token_updated">>
    /\ calls[3].pk_before # None /\ calls[3].events = <<"raised">>

(***************************************************************************)
(* C6: is_expired() is False without an expiration date, and otherwise     *)
(* True exactly from the instant 'expires' on (that instant included); for *)
(* the same 'expires' a later call never reports unexpired after an        *)
(* earlier call reported expired.                                          *)
(***************************************************************************)
C6_ExpiredFromBoundary ==
    /\ \A i \in 1..Len(reports) :
          LET r == reports[i]
          IN  /\ ~r.expires.set => ~r.expired
              /\ (r.expires.set /\ r.now < r.expires.at) => ~r.expired
              /\ (r.expires.set /\ r.now = r.expires.at) => r.expired
              /\ (r.expires.set /\ r.now > r.expires.at) => r.expired
    /\ \A i, j \in 1..Len(reports) :
          (i < j /\ reports[i].expires = reports[j].expires /\ reports[i].expired)
              => reports[j].expired

\* Reported expired at the boundary instant and again later.
C6_Witness ==
    /\ Len(reports) = 2
    /\ reports[1].expires.set /\ reports[1].expires = reports[2].expires
    /\ reports[1].now = reports[1].expires.at /\ reports[1].expired
    /\ reports[2].now > reports[1].now /\ reports[2].expired

====
